---------------------------- MODULE Spec2Model ----------------------------
(***************************************************************************)
(* Model of src/js/app.js, the client-side Markdown document converter.    *)
(*                                                                         *)
(* Text is a sequence of characters.  A character is a one-element TLA+    *)
(* string: "-", " ", the newline NL, ".", a letter, or an atom such as     *)
(* "title: X" that stands for a run of text holding no newline and no      *)
(* leading hyphen or white space.  JavaScript values are records           *)
(* [t |-> type tag, v |-> text].                                           *)
(***************************************************************************)
EXTENDS Integers, Sequences, FiniteSets, TLC

VARIABLES
    selectedFile,     \* let selectedFile (NullFile for null)
    markdownContent,  \* let markdownContent
    parsedHtml,       \* let parsedHtml: the fragment, as its sequence of nodes
    metadata,         \* let metadata
    display,          \* style.display of the six sections
    shownFile,        \* the file whose name and size fileInfo shows
    previewContent,   \* previewContent.innerHTML
    errorMessage,     \* errorMessage.textContent
    invs,             \* the processFile invocations, in the order they started
    convs,            \* the convertAndDownload invocations, in the order they started
    timers,           \* the number of setTimeout(reset, 2000) calls not yet fired
    content,        \* text specifications: the text handed to the function
    stripped,       \* text specifications: successive removeFrontMatter outputs
    fmMatch,        \* text specifications: the match object of extractMetadata
    meta,           \* text specifications: the record extractMetadata returned
    canvas,         \* generatePDF: width and height of the rasterized canvas
    heightLeft,     \* generatePDF: let heightLeft, multiplied by canvas.width
    position,       \* generatePDF: let position, multiplied by canvas.width
    pdfPages,       \* generatePDF: the position of the image on each page
    pdfPc           \* generatePDF: where the pagination code stands

textVars == <<content, stripped, fmMatch, meta>>
pdfVars == <<canvas, heightLeft, position, pdfPages, pdfPc>>
stateVars == <<selectedFile, markdownContent, parsedHtml, metadata>>
domVars == <<display, shownFile, previewContent, errorMessage>>
convVars == <<convs, timers>>
appVars == <<markdownContent, parsedHtml, metadata, domVars, invs, convVars>>
vars == <<selectedFile, appVars, textVars, pdfVars>>

-----------------------------------------------------------------------------
(* Characters and JavaScript values *)

NL == "\n"

IsWhite(c) == c \in {" ", NL}

JsStr(s) == [t |-> "string", v |-> s]
JsNum0 == [t |-> "number", v |-> <<"0">>]
JsFalse == [t |-> "boolean", v |-> <<"false">>]
JsUndefined == [t |-> "undefined", v |-> <<>>]

\* the completion of an expression that throws, where a text is expected and
\* where a metadata record is
Thrown == <<"TypeError">>
JsThrown == [t |-> "thrown", v |-> Thrown]
Raised == [title |-> JsThrown, author |-> JsThrown, date |-> JsThrown]

\* JavaScript truthiness, as the || operator tests it
Truthy(x) ==
    /\ x.t \notin {"null", "undefined"}
    /\ x # JsStr(<<>>)
    /\ x # JsNum0
    /\ x # JsFalse

\* a || b
JsOr(a, b) == IF Truthy(a) THEN a ELSE b

-----------------------------------------------------------------------------
(* Regular expressions: a pattern is a sequence of items, matched by       *)
(* backtracking in the priority order of the JavaScript engine.            *)

Item(k, c, cls, greedy, opts) ==
    [k |-> k, c |-> c, cls |-> cls, greedy |-> greedy, opts |-> opts]
Bol == Item("bol", "", "", FALSE, <<>>)
Eol == Item("eol", "", "", FALSE, <<>>)
Lit(c) == Item("lit", c, "", FALSE, <<>>)
Star(cls) == Item("star", "", cls, TRUE, <<>>)
LazyStar(cls) == Item("star", "", cls, FALSE, <<>>)
Open == Item("open", "", "", FALSE, <<>>)
Close == Item("close", "", "", FALSE, <<>>)
Alt(opts) == Item("alt", "", "", FALSE, opts)

InClass(c, cls) == IF cls = "s" THEN IsWhite(c) ELSE TRUE

\* number of consecutive characters of class cls from position p
RECURSIVE RunLen(_, _, _)
RunLen(s, p, cls) ==
    IF p <= Len(s) /\ InClass(s[p], cls) THEN 1 + RunLen(s, p + 1, cls) ELSE 0

HasAt(s, p, w) ==
    /\ p + Len(w) - 1 <= Len(s)
    /\ \A j \in 1..Len(w) : s[p + j - 1] = w[j]

NoMatch == [ok |-> FALSE, index |-> 0, end |-> 0, cs |-> 0, ce |-> 0]

\* match items i.. of pat against s from position p; end is the position
\* after the last character consumed, cs/ce delimit capture group 1
RECURSIVE MatchFrom(_, _, _, _, _, _)
RECURSIVE StarTry(_, _, _, _, _, _, _, _)
RECURSIVE AltTry(_, _, _, _, _, _, _)
MatchFrom(pat, i, s, p, cs, ce) ==
    IF i > Len(pat)
    THEN [ok |-> TRUE, index |-> 0, end |-> p, cs |-> cs, ce |-> ce]
    ELSE LET it == pat[i] IN
         CASE it.k = "bol" ->
                IF p = 1 THEN MatchFrom(pat, i + 1, s, p, cs, ce) ELSE NoMatch
           [] it.k = "eol" ->
                IF p = Len(s) + 1 THEN MatchFrom(pat, i + 1, s, p, cs, ce) ELSE NoMatch
           [] it.k = "lit" ->
                IF p <= Len(s) /\ s[p] = it.c
                THEN MatchFrom(pat, i + 1, s, p + 1, cs, ce) ELSE NoMatch
           [] it.k = "open" -> MatchFrom(pat, i + 1, s, p, p, ce)
           [] it.k = "close" -> MatchFrom(pat, i + 1, s, p, cs, p)
           [] it.k = "star" ->
                LET max == RunLen(s, p, it.cls) IN
                StarTry(pat, i, s, p, cs, ce, IF it.greedy THEN max ELSE 0, max)
           [] it.k = "alt" -> AltTry(pat, i, s, p, cs, ce, 1)

\* the star takes n characters; greedy counts down, lazy counts up
StarTry(pat, i, s, p, cs, ce, n, max) ==
    LET r == MatchFrom(pat, i + 1, s, p + n, cs, ce) IN
    IF r.ok THEN r
    ELSE IF pat[i].greedy
         THEN IF n = 0 THEN NoMatch ELSE StarTry(pat, i, s, p, cs, ce, n - 1, max)
         ELSE IF n = max THEN NoMatch ELSE StarTry(pat, i, s, p, cs, ce, n + 1, max)

\* the alternatives of a group, tried from left to right
AltTry(pat, i, s, p, cs, ce, o) ==
    IF o > Len(pat[i].opts) THEN NoMatch
    ELSE LET w == pat[i].opts[o]
             r == IF HasAt(s, p, w)
                  THEN MatchFrom(pat, i + 1, s, p + Len(w), cs, ce) ELSE NoMatch
         IN IF r.ok THEN r ELSE AltTry(pat, i, s, p, cs, ce, o + 1)

\* RegExp.prototype.exec without the g flag: the first start position, from
\* the left, at which the pattern matches
RECURSIVE ExecFrom(_, _, _)
ExecFrom(pat, s, start) ==
    IF start > Len(s) + 1 THEN NoMatch
    ELSE LET r == MatchFrom(pat, 1, s, start, 0, 0) IN
         IF r.ok THEN [r EXCEPT !.index = start] ELSE ExecFrom(pat, s, start + 1)

RegexExec(pat, s) == ExecFrom(pat, s, 1)

\* String.prototype.replace(regex, ''): the first match is cut out
ReplaceWithEmpty(pat, s) ==
    LET m == RegexExec(pat, s) IN
    IF m.ok THEN SubSeq(s, 1, m.index - 1) \o SubSeq(s, m.end, Len(s)) ELSE s


-----------------------------------------------------------------------------
(* Files *)

\* the null of let selectedFile = null
NullFile == [name |-> <<"null">>, size |-> -1, text |-> <<>>]

ExtMd == <<"m", "d">>
ExtMarkdown == <<"m", "a", "r", "k", "d", "o", "w", "n">>
ExtTxt == <<"t", "x", "t">>

\* const validExtensions = ['md', 'markdown', 'txt']
validExtensions == {ExtMd, ExtMarkdown, ExtTxt}

\* String.prototype.toLowerCase on the letters file names are built from
LowerChar(c) ==
    CASE c = "M" -> "m" [] c = "D" -> "d" [] c = "T" -> "t" [] c = "X" -> "x"
      [] OTHER -> c

toLowerCase(s) == [j \in 1..Len(s) |-> LowerChar(s[j])]

\* name.split('.').pop(): the text after the last dot, the whole name when
\* it holds no dot
RECURSIVE LastDot(_, _)
LastDot(s, p) == IF p = 0 \/ s[p] = "." THEN p ELSE LastDot(s, p - 1)

SplitPop(s) == SubSeq(s, LastDot(s, Len(s)) + 1, Len(s))

\* const extension = file.name.split('.').pop().toLowerCase()
extension(file) == toLowerCase(SplitPop(file.name))

\* /\.(md|markdown|txt)$/
NameRegex == <<Lit("."), Alt(<<ExtMd, ExtMarkdown, ExtTxt>>), Eol>>

\* the placeholder title, a fixed Russian word for "document"
Placeholder == <<"Document">>

\* new Date().toLocaleDateString('ru-RU')
Today == <<"02.11.2026">>

\* selectedFile ? selectedFile.name.replace(/\.(md|markdown|txt)$/, '') : placeholder
DefaultTitle(sel) ==
    IF sel # NullFile THEN ReplaceWithEmpty(NameRegex, sel.name) ELSE Placeholder

-----------------------------------------------------------------------------
(* Front matter *)

\* /^---\s*\n([\s\S]*?)\n---\s*\n/ of extractMetadata
ExtractRegex ==
    <<Bol, Lit("-"), Lit("-"), Lit("-"), Star("s"), Lit(NL),
      Open, LazyStar("any"), Close,
      Lit(NL), Lit("-"), Lit("-"), Lit("-"), Star("s"), Lit(NL)>>

\* the expression without its ^ anchor
RemoveRegexUnanchored ==
    <<Lit("-"), Lit("-"), Lit("-"), Star("s"), Lit(NL),
      LazyStar("any"),
      Lit(NL), Lit("-"), Lit("-"), Lit("-"), Star("s"), Lit(NL)>>

\* the expression without \s* after the delimiters: /^---\n[\s\S]*?\n---\n/
RemoveRegexStrict ==
    <<Bol, Lit("-"), Lit("-"), Lit("-"), Lit(NL),
      LazyStar("any"),
      Lit(NL), Lit("-"), Lit("-"), Lit("-"), Lit(NL)>>

\* the expression without the end of the closing line: /^---\s*\n[\s\S]*?\n---/
RemoveRegexOpenEnd ==
    <<Bol, Lit("-"), Lit("-"), Lit("-"), Star("s"), Lit(NL),
      LazyStar("any"),
      Lit(NL), Lit("-"), Lit("-"), Lit("-")>>

\* /^---\s*\n[\s\S]*?\n---\s*\n/ of removeFrontMatter
RemoveRegex ==
    <<Bol, Lit("-"), Lit("-"), Lit("-"), Star("s"), Lit(NL),
      LazyStar("any"),
      Lit(NL), Lit("-"), Lit("-"), Lit("-"), Star("s"), Lit(NL)>>

\* content.replace(frontMatterRegex, '')
removeFrontMatter(text) == ReplaceWithEmpty(RemoveRegex, text)

\* content.match(frontMatterRegex) in extractMetadata
ExtractMatch(text) == RegexExec(ExtractRegex, text)

\* the lines of a text, split at the newlines
RECURSIVE SplitLines(_)
SplitLines(s) ==
    IF \A j \in 1..Len(s) : s[j] # NL THEN <<s>>
    ELSE LET p == CHOOSE j \in 1..Len(s) :
                     s[j] = NL /\ \A h \in 1..(j - 1) : s[h] # NL
         IN <<SubSeq(s, 1, p - 1)>> \o SplitLines(SubSeq(s, p + 1, Len(s)))

\* s without its trailing white space
RECURSIVE TrimRight(_)
TrimRight(s) ==
    IF s # <<>> /\ IsWhite(s[Len(s)]) THEN TrimRight(SubSeq(s, 1, Len(s) - 1)) ELSE s

YamlEntries ==
    [k : {"title"}, atom : {"title: X"}, val : {JsStr(<<"X">>)}] \cup
    [k : {"title"}, atom : {"title: ''"}, val : {JsStr(<<>>)}] \cup
    [k : {"title"}, atom : {"title: 0"}, val : {JsNum0}] \cup
    [k : {"title"}, atom : {"title: false"}, val : {JsFalse}] \cup
    [k : {"author"}, atom : {"author: A"}, val : {JsStr(<<"A">>)}]

IsEntryLine(l) == \E e \in YamlEntries : TrimRight(l) = <<e.atom>>
EntryOf(l) == CHOOSE e \in YamlEntries : TrimRight(l) = <<e.atom>>
IsMarkerLine(l) == TrimRight(l) = <<"-", "-", "-">>
IsFlowLine(l) == \E j \in 1..Len(l) : l[j] = "["

YamlThrow == [kind |-> "throw", title |-> JsUndefined, author |-> JsUndefined, date |-> JsUndefined]
YamlNullish == [kind |-> "nullish", title |-> JsUndefined, author |-> JsUndefined, date |-> JsUndefined]
YamlScalar == [kind |-> "scalar", title |-> JsUndefined, author |-> JsUndefined, date |-> JsUndefined]

YamlKey(ls, k) ==
    IF \E j \in 1..Len(ls) : EntryOf(ls[j]).k = k
    THEN EntryOf(ls[CHOOSE j \in 1..Len(ls) : EntryOf(ls[j]).k = k]).val
    ELSE JsUndefined

\* jsyaml.load on the interior of the block: what the library returns for a
\* document of blank lines, a leading --- marker, key: value lines, plain
\* scalars and an unterminated flow sequence
jsyaml_load(text) ==
    LET all == SplitLines(text)
        ls == SelectSeq(all, LAMBDA l : TrimRight(l) # <<>>)
        body == IF ls # <<>> /\ IsMarkerLine(ls[1]) THEN Tail(ls) ELSE ls
    IN  IF \E j \in 1..Len(body) : IsFlowLine(body[j]) \/ IsMarkerLine(body[j])
        THEN YamlThrow
        ELSE IF body = <<>> THEN YamlNullish
        ELSE IF \A j \in 1..Len(body) : IsEntryLine(body[j])
        THEN IF \E i, j \in 1..Len(body) : i # j /\ EntryOf(body[i]).k = EntryOf(body[j]).k
             THEN YamlThrow
             ELSE [kind |-> "map", title |-> YamlKey(body, "title"),
                   author |-> YamlKey(body, "author"), date |-> JsUndefined]
        ELSE IF \A j \in 1..Len(body) : ~IsEntryLine(body[j])
        THEN YamlScalar
        ELSE YamlThrow

\* the record of the fall-through return of extractMetadata
DefaultMetadata(sel) ==
    [title |-> JsStr(DefaultTitle(sel)), author |-> JsStr(<<>>), date |-> JsStr(Today)]

\* extractMetadata without its try and catch: what jsyaml.load throws, and
\* the TypeError of reading a property of null or undefined, reach the caller
extractMetadataUncaught(text, sel) ==
    LET match == ExtractMatch(text)
        yamlData == jsyaml_load(SubSeq(text, match.cs, match.ce - 1))
    IN  IF match.ok
        THEN IF yamlData.kind \in {"map", "scalar"}
             THEN [title |-> JsOr(yamlData.title, JsStr(Placeholder)),
                   author |-> JsOr(yamlData.author, JsStr(<<>>)),
                   date |-> JsOr(yamlData.date, JsStr(Today))]
             ELSE Raised
        ELSE DefaultMetadata(sel)

\* extractMetadata(content), which reads the variable selectedFile
extractMetadata(text, sel) ==
    LET match == ExtractMatch(text)
        yamlData == jsyaml_load(SubSeq(text, match.cs, match.ce - 1))
    IN  IF match.ok /\ yamlData.kind \in {"map", "scalar"}
        THEN [title |-> JsOr(yamlData.title, JsStr(Placeholder)),
              author |-> JsOr(yamlData.author, JsStr(<<>>)),
              date |-> JsOr(yamlData.date, JsStr(Today))]
        ELSE DefaultMetadata(sel)

\* let metadata = {}
EmptyMetadata == [title |-> JsUndefined, author |-> JsUndefined, date |-> JsUndefined]


-----------------------------------------------------------------------------
(* The functions of the front matter, applied to bounded texts *)

MaxPieces == 4
MaxYamlLines == 2
MaxStrips == 2

SeqsUpTo(S, n) == UNION {[1..m -> S] : m \in 0..n}

RECURSIVE JoinLines(_)
JoinLines(ls) == IF ls = <<>> THEN <<>> ELSE ls[1] \o <<NL>> \o JoinLines(Tail(ls))

\* the lines, each ended by a newline, the last one only when nl
TextOf(ls, nl) ==
    LET t == JoinLines(ls) IN
    IF nl \/ t = <<>> THEN t ELSE SubSeq(t, 1, Len(t) - 1)

Dashes == <<"-", "-", "-">>

FmPieces ==
    { Dashes, Dashes \o <<" ">>, Dashes \o <<"-">>, <<>>, <<"a">>,
      Dashes \o <<NL, "a", NL>> \o Dashes }

FmTexts == { TextOf(ls, nl) : ls \in SeqsUpTo(FmPieces, MaxPieces), nl \in BOOLEAN }

YamlLines ==
    { <<e.atom>> : e \in YamlEntries } \cup { <<"a">>, <<"[">>, <<>> }

MetaTexts ==
    { TextOf(<<Dashes>> \o ys \o <<Dashes, <<"a">>>>, TRUE) :
          ys \in SeqsUpTo(YamlLines, MaxYamlLines) }
    \cup { TextOf(ys \o <<<<"a">>>>, TRUE) : ys \in SeqsUpTo(YamlLines, MaxYamlLines) }

FileNames ==
    { <<"a", ".", "m", "d">>, <<"b", ".", "M", "D">>,
      <<"c", ".", "m", "a", "r", "k", "d", "o", "w", "n">>,
      <<"d", ".", "t", "x", "t">>, <<"e", ".", "T", "x", "t">>,
      <<"m", "d">>, <<"f", ".", "t", "x", "t", ".", "m", "d">>,
      <<"g", ".", "p", "d", "f">> }

\* if (!validExtensions.includes(extension))
ValidType(file) == extension(file) \in validExtensions

\* the files that can be the value of selectedFile when extractMetadata runs
TextFiles ==
    { f \in [name : FileNames, size : {1}, text : {<<>>}] : ValidType(f) }
    \cup {NullFile}

PdfIdle ==
    /\ canvas = [width |-> 0, height |-> 0]
    /\ heightLeft = 0
    /\ position = 0
    /\ pdfPages = <<>>
    /\ pdfPc = "idle"

TextIdle ==
    /\ content = <<>>
    /\ stripped = <<>>
    /\ fmMatch = NoMatch
    /\ meta = EmptyMetadata

\* the sections as the page shows them before any event, and after reset
InitialDisplay ==
    [uploadArea |-> "block", fileInfo |-> "none", preview |-> "none",
     options |-> "none", progress |-> "none", error |-> "none"]

AppIdle ==
    /\ markdownContent = <<>>
    /\ parsedHtml = <<>>
    /\ metadata = EmptyMetadata
    /\ display = InitialDisplay
    /\ shownFile = NullFile
    /\ previewContent = <<>>
    /\ errorMessage = ""
    /\ invs = <<>>
    /\ convs = <<>>
    /\ timers = 0

InitText ==
    /\ \/ content \in FmTexts /\ selectedFile = NullFile
       \/ content \in MetaTexts /\ selectedFile \in TextFiles
    /\ stripped = <<>>
    /\ fmMatch = NoMatch
    /\ meta = EmptyMetadata
    /\ AppIdle
    /\ PdfIdle

\* removeFrontMatter applied to the text, then to its own output
Normalize ==
    /\ Len(stripped) < MaxStrips
    /\ stripped' = Append(stripped,
           removeFrontMatter(IF stripped = <<>> THEN content ELSE stripped[Len(stripped)]))
    /\ UNCHANGED <<selectedFile, appVars, content, fmMatch, meta, pdfVars>>

\* extractMetadata applied to the text
Extract ==
    /\ meta = EmptyMetadata
    /\ meta' = extractMetadata(content, selectedFile)
    /\ fmMatch' = ExtractMatch(content)
    /\ UNCHANGED <<selectedFile, appVars, content, stripped, pdfVars>>

NextText == Normalize \/ Extract

SpecText == InitText /\ [][NextText]_vars


-----------------------------------------------------------------------------
(* Front-matter blocks, stated without the matcher *)

AllWhite(t, a, b) == \A j \in a..b : IsWhite(t[j])

\* t[1..e] is an opening line of three hyphens, interior text, a closing line
\* of three hyphens, and white space up to the newline at e
BlockEndsAt(t, e) ==
    /\ HasAt(t, 1, Dashes)
    /\ e <= Len(t)
    /\ t[e] = NL
    /\ \E e1 \in 4..e : \E c \in (e1 + 1)..(e - 4) :
          /\ AllWhite(t, 4, e1)
          /\ t[e1] = NL
          /\ HasAt(t, c, <<NL>> \o Dashes)
          /\ AllWhite(t, c + 4, e)

HasLeadingBlock(t) == \E e \in 1..Len(t) : BlockEndsAt(t, e)

Extracted == meta # EmptyMetadata

-----------------------------------------------------------------------------
(* Claims about the front matter, under SpecText *)

\* C3 as stated: removeFrontMatter applied to its own output changes nothing,
\* for every text.
C3_Idempotent == Len(stripped) >= 2 => stripped[2] = stripped[1]

\* C3 amended: removeFrontMatter applied to its own output changes nothing
\* exactly when that output does not itself begin with a front-matter block;
\* when it does, the second application removes that block as well.
C3_IdempotentUnlessBodyBlock ==
    Len(stripped) >= 2 =>
        /\ (stripped[2] = stripped[1]) <=> ~HasLeadingBlock(stripped[1])
        /\ Len(stripped[2]) <= Len(stripped[1])

C3_Witness ==
    /\ Len(stripped) >= 2
    /\ stripped[1] # content
    /\ stripped[1] # <<>>
    /\ stripped[2] = stripped[1]

\* C5 as stated: without a leading front-matter block, the title is the name
\* of the selected file without its extension (the placeholder when no file
\* is selected), the author is empty and the date is not.
ExpectedStem(sel) ==
    IF sel = NullFile THEN Placeholder
    ELSE IF LastDot(sel.name, Len(sel.name)) = 0 THEN sel.name
    ELSE SubSeq(sel.name, 1, LastDot(sel.name, Len(sel.name)) - 1)

C5_DefaultsWithoutFrontMatter ==
    Extracted /\ ~HasLeadingBlock(content) =>
        /\ meta.title = JsStr(ExpectedStem(selectedFile))
        /\ meta.author = JsStr(<<>>)
        /\ meta.date.t = "string" /\ meta.date.v # <<>>

\* C6 as stated: when the leading block holds a title entry with value X, the
\* extracted title is X, for every X the parser yields.
C6_TitleEqualsFrontMatterValue ==
    LET yamlData == jsyaml_load(SubSeq(content, fmMatch.cs, fmMatch.ce - 1)) IN
    Extracted /\ fmMatch.ok /\ yamlData.kind = "map" /\ yamlData.title # JsUndefined
        => meta.title = yamlData.title

\* C7 as stated: for a text with a leading front-matter block, no line of the
\* output is a line of three hyphens or one of the block's interior lines.
InteriorLines(t) ==
    LET m == ExtractMatch(t) IN
    { l \in {SplitLines(SubSeq(t, m.cs, m.ce - 1))[j] :
                 j \in 1..Len(SplitLines(SubSeq(t, m.cs, m.ce - 1)))} : TRUE }

LinesOf(t) == { SplitLines(t)[j] : j \in 1..Len(SplitLines(t)) }

C7_NoDelimiterOrInteriorInOutput ==
    Len(stripped) >= 1 /\ HasLeadingBlock(content) =>
        \A l \in LinesOf(stripped[1]) :
            TrimRight(l) # Dashes /\ (l # <<>> => l \notin InteriorLines(content))

\* C7 amended: for a text with a leading front-matter block, the output is
\* the text that follows that block (opening line, interior, closing line and
\* the white space up to the last newline after it), unchanged; lines of the
\* body stay even when they are three hyphens or equal an interior line.
C7_OutputIsTextAfterBlock ==
    Len(stripped) >= 1 /\ HasLeadingBlock(content) =>
        \E e \in 1..Len(content) :
            /\ BlockEndsAt(content, e)
            /\ stripped[1] = SubSeq(content, e + 1, Len(content))
            /\ (stripped[1] # <<>> => stripped[1][1] # NL)

C7_Witness ==
    /\ Len(stripped) >= 1
    /\ HasLeadingBlock(content)
    /\ Dashes \in LinesOf(stripped[1])
    /\ <<"a">> \in LinesOf(stripped[1]) \cap InteriorLines(content)

\* C8: extractMetadata finds a block exactly when removeFrontMatter removes a
\* prefix, and the prefix removed is the text extractMetadata matched: three
\* hyphens, white space to a newline, the captured interior, a newline, three
\* hyphens and white space to a newline; the body starts at the same place.
C8_ExtractAndRemoveAgree ==
    Extracted /\ Len(stripped) >= 1 =>
        /\ fmMatch.ok <=> stripped[1] # content
        /\ fmMatch.ok =>
              /\ fmMatch.index = 1
              /\ stripped[1] = SubSeq(content, fmMatch.end, Len(content))
              /\ HasAt(content, 1, Dashes)
              /\ AllWhite(content, 4, fmMatch.cs - 1)
              /\ content[fmMatch.cs - 1] = NL
              /\ HasAt(content, fmMatch.ce, <<NL>> \o Dashes)
              /\ AllWhite(content, fmMatch.ce + 4, fmMatch.end - 1)
              /\ content[fmMatch.end - 1] = NL
        /\ fmMatch.ok <=> HasLeadingBlock(content)

C8_Witness ==
    /\ Extracted
    /\ Len(stripped) >= 1
    /\ fmMatch.ok
    /\ fmMatch.ce > fmMatch.cs
    /\ stripped[1] # <<>>


\* C13: extractMetadata returns to its caller for every text, also when the
\* block does not parse (the defaults of a text without a block), parses to
\* nothing (the same defaults) or to a value that is not a mapping (the
\* placeholder title); the record it returns has a title and a date that are
\* not empty and an author, so that processFile goes on to removeFrontMatter
\* and md.render.
C13_ExtractionNeverRaises ==
    LET yamlData == jsyaml_load(SubSeq(content, fmMatch.cs, fmMatch.ce - 1)) IN
    Extracted =>
        /\ meta # Raised
        /\ Truthy(meta.title) /\ meta.author # JsUndefined /\ Truthy(meta.date)
        /\ fmMatch.ok /\ yamlData.kind \in {"throw", "nullish"}
               => meta = DefaultMetadata(selectedFile)
        /\ fmMatch.ok /\ yamlData.kind = "scalar"
               => meta = [title |-> JsStr(Placeholder), author |-> JsStr(<<>>),
                          date |-> JsStr(Today)]

C13_Witness ==
    /\ Extracted
    /\ fmMatch.ok
    /\ jsyaml_load(SubSeq(content, fmMatch.cs, fmMatch.ce - 1)).kind = "nullish"
    /\ selectedFile # NullFile
    /\ meta.title = JsStr(DefaultTitle(selectedFile))

-----------------------------------------------------------------------------
(* generatePDF: the pagination of the rasterized canvas.  Lengths are kept  *)
(* multiplied by canvas.width, so that imgHeight = canvas.height * 210 /    *)
(* canvas.width stays an integer; the comparisons of the code come out the  *)
(* same, since imgHeight differs from a multiple of 297 by 1/canvas.width   *)
(* at least or not at all.                                                  *)

MaxCanvasHeight == 900

\* const imgWidth = 210
imgWidth == 210

\* heightLeft -= 297
PageHeight == 297

CanvasWidths == {210, 420}

\* imgHeight * canvas.width
imgHeightW == canvas.height * imgWidth

\* 297 * canvas.width
PageHeightW == PageHeight * canvas.width

InitPdf ==
    /\ selectedFile = NullFile
    /\ AppIdle
    /\ TextIdle
    /\ canvas \in [width : CanvasWidths, height : 1..MaxCanvasHeight]
    /\ heightLeft = 0
    /\ position = 0
    /\ pdfPages = <<>>
    /\ pdfPc = "rasterized"

\* let heightLeft = imgHeight; let position = 0; pdf.addImage; heightLeft -= 297
AddFirstImage ==
    /\ pdfPc = "rasterized"
    /\ position' = 0
    /\ pdfPages' = <<0>>
    /\ heightLeft' = imgHeightW - PageHeightW
    /\ pdfPc' = "loop"
    /\ UNCHANGED <<selectedFile, appVars, textVars, canvas>>

\* while (heightLeft >= 0)
LoopCondition == heightLeft >= 0

\* the sign of the offset lost
NegatedHeightLeft == -heightLeft

\* position = heightLeft - imgHeight
NextPosition == heightLeft - imgHeightW

\* position = heightLeft - imgHeight; pdf.addPage(); pdf.addImage; heightLeft -= 297
AddPage ==
    /\ pdfPc = "loop"
    /\ LoopCondition
    /\ position' = NextPosition
    /\ pdfPages' = Append(pdfPages, NextPosition)
    /\ heightLeft' = heightLeft - PageHeightW
    /\ UNCHANGED <<selectedFile, appVars, textVars, canvas, pdfPc>>

\* the loop is left; pdf.save(filename)
SavePdf ==
    /\ pdfPc = "loop"
    /\ ~LoopCondition
    /\ pdfPc' = "saved"
    /\ UNCHANGED <<selectedFile, appVars, textVars, canvas, heightLeft, position, pdfPages>>

NextPdf == AddFirstImage \/ AddPage \/ SavePdf

SpecPdf == InitPdf /\ [][NextPdf]_vars

\* C2 as stated: when imgHeight is exactly n times the page height, n >= 1,
\* the saved document has exactly n pages.
C2_ExactMultipleGivesThatManyPages ==
    pdfPc = "saved" /\ imgHeightW % PageHeightW = 0
        => Len(pdfPages) = imgHeightW \div PageHeightW

\* C16: on every page emitted, page j counted from 0, the image is placed at
\* the vertical offset -j * 297 exactly, so that the bands two consecutive
\* pages show are one page height apart: no gap and no overlap.  (The
\* subtractions that lead to a position are exact in binary floating point
\* too: heightLeft is imgHeight less a multiple of 297 and not negative.)
C16_PageOffsetIsMinusPageIndexTimesHeight ==
    /\ \A j \in 1..Len(pdfPages) : pdfPages[j] = -(j - 1) * PageHeightW
    /\ \A j \in 1..(Len(pdfPages) - 1) : pdfPages[j] - pdfPages[j + 1] = PageHeightW
    /\ pdfPages # <<>> => position = pdfPages[Len(pdfPages)]

C16_Witness == pdfPc = "saved" /\ Len(pdfPages) >= 3 /\ imgHeightW % PageHeightW # 0


-----------------------------------------------------------------------------
(* The rendered fragment.  A node is a child of the fragment root: a        *)
(* paragraph, an element holding diagram code blocks (codes, in document    *)
(* order), a diagram code block that is itself a child of the root, or the  *)
(* container a rendered diagram is put in.                                  *)

Node(tag, text, codes) ==
    [tag |-> tag, text |-> text, codes |-> codes, kids |-> <<>>]

\* an element whose children are elements (list, block quote)
Parent(tag, kids) == [tag |-> tag, text |-> <<>>, codes |-> <<>>, kids |-> kids]

\* block constructs of the grammar, each on a line of its own
MarkdownAtoms ==
    { [atom |-> "# T", node |-> Node("h1", <<"T">>, <<>>)],
      [atom |-> "###### S", node |-> Node("h6", <<"S">>, <<>>)],
      [atom |-> "~~~c~~~", node |-> Node("pre", <<"c">>, <<>>)],
      [atom |-> "***", node |-> Node("hr", <<>>, <<>>)],
      [atom |-> "- i", node |-> Node("ul", <<"i">>, <<>>)],
      [atom |-> "1. j (loose)", node |-> Parent("ol", <<Node("p", <<"j">>, <<>>)>>)],
      [atom |-> "> ### Q", node |-> Parent("blockquote", <<Node("h3", <<"Q">>, <<>>)>>)] }

\* raw HTML of the source text that md.render passes through (html: true)
HtmlAtoms ==
    { [atom |-> "<pre><code class=language-mermaid>g1</code></pre>",
       node |-> Node("pre", <<>>, <<"g1">>)],
      [atom |-> "<pre><code class=language-mermaid>g2</code></pre>",
       node |-> Node("pre", <<>>, <<"g2">>)],
      [atom |-> "<pre><code class=language-mermaid>g3</code></pre>",
       node |-> Node("pre", <<>>, <<"g3">>)],
      [atom |-> "<pre><code class=language-mermaid>g4</code><code class=language-mermaid>g5</code></pre>",
       node |-> Node("pre", <<>>, <<"g4", "g5">>)],
      \* an HTML block of its own: the code element is a child of the root
      [atom |-> "<code class=language-mermaid>g6</code>",
       node |-> Node("code", <<>>, <<"g6">>)] }

IsHtmlLine(l) == \E h \in HtmlAtoms \cup MarkdownAtoms : l = <<h.atom>>

NodeOfLine(l) ==
    IF IsHtmlLine(l) THEN (CHOOSE h \in HtmlAtoms \cup MarkdownAtoms : l = <<h.atom>>).node
    ELSE Node("p", l, <<>>)

\* md.render(text): one node for each line that is not blank
md_render(text) ==
    LET ls == SelectSeq(SplitLines(text), LAMBDA l : TrimRight(l) # <<>>) IN
    [j \in 1..Len(ls) |-> NodeOfLine(ls[j])]

\* tempDiv.querySelectorAll('code.language-mermaid'): the code blocks in
\* document order, each with the node it lies in and its place there
RECURSIVE BlocksFrom(_, _)
BlocksFrom(html, j) ==
    IF j > Len(html) THEN <<>>
    ELSE [k \in 1..Len(html[j].codes) |->
             [node |-> j, k |-> k, code |-> html[j].codes[k]]]
         \o BlocksFrom(html, j + 1)

querySelectorAll(html) == BlocksFrom(html, 1)

\* svgDiv: the container with the rendered diagram
SvgDiv(code) == Node("div.mermaid-diagram", <<"svg", code>>, <<>>)

\* block.parentElement.replaceWith(svgDiv): the parent of a block that is a
\* child of the root is the root, which has no parent and stays; an element
\* already replaced is detached and stays so
replaceWith(div, b) ==
    IF div[b.node].tag = "pre" THEN [div EXCEPT ![b.node] = SvgDiv(b.code)] ELSE div

\* the blocks of bs that are in the fragment
BlocksIn(div, bs) ==
    { j \in 1..Len(bs) : div[bs[j].node].tag \in {"pre", "code"} }

-----------------------------------------------------------------------------
(* generateDOCX: the paragraphs made from the metadata and the fragment *)

\* el.tagName.toLowerCase(), as its characters
tagName(el) ==
    CASE el.tag = "h1" -> <<"h", "1">>
      [] el.tag = "h3" -> <<"h", "3">>
      [] el.tag = "h6" -> <<"h", "6">>
      [] el.tag = "hr" -> <<"h", "r">>
      [] el.tag = "p" -> <<"p">>
      [] el.tag = "pre" -> <<"p", "r", "e">>
      [] el.tag = "ul" -> <<"u", "l">>
      [] el.tag = "ol" -> <<"o", "l">>
      [] el.tag = "code" -> <<"c", "o", "d", "e">>
      [] el.tag = "blockquote" -> <<"b", "l", "o", "c", "k", "q", "u", "o", "t", "e">>
      [] OTHER -> <<"d", "i", "v">>

\* the selector with the thematic break among the elements
SelectorWithHr == {"h1", "h2", "h3", "h4", "h5", "h6", "hr", "p", "pre", "ul", "ol"}

\* 'h1, h2, h3, h4, h5, h6, p, pre, ul, ol'
Selector == {"h1", "h2", "h3", "h4", "h5", "h6", "p", "pre", "ul", "ol"}

\* the elements of the fragment in document order
RECURSIVE Descendants(_)
Descendants(nodes) ==
    IF nodes = <<>> THEN <<>>
    ELSE <<nodes[1]>> \o Descendants(nodes[1].kids) \o Descendants(Tail(nodes))

\* tempDiv.querySelectorAll('h1, h2, h3, h4, h5, h6, p, pre, ul, ol')
querySelectorAllBlocks(html) ==
    SelectSeq(Descendants(html), LAMBDA el : el.tag \in Selector)

\* el.textContent
RECURSIVE textContent(_)
textContent(el) ==
    LET RECURSIVE Join(_)
        Join(ns) == IF ns = <<>> THEN <<>> ELSE textContent(ns[1]) \o Join(Tail(ns))
    IN  el.text \o el.codes \o Join(el.kids)

Digits == <<"0", "1", "2", "3", "4", "5", "6", "7", "8", "9">>

\* parseInt(s) for a text of at most one digit; 0 stands for NaN
parseInt(s) ==
    IF s # <<>> /\ \E d \in 1..10 : Digits[d] = s[1]
    THEN (CHOOSE d \in 1..10 : Digits[d] = s[1]) - 1
    ELSE 0

\* HeadingLevel['HEADING_' + level] || HeadingLevel.HEADING_1
HeadingLevel(level) == IF level \in 1..6 THEN level ELSE 1

Paragraph(kind, level, text) == [kind |-> kind, level |-> level, text |-> text]

\* the body of elements.forEach: the paragraphs pushed for one element
ElementParagraphs(el) ==
    LET name == tagName(el) IN
    IF name[1] = "h"
    THEN <<Paragraph("heading", HeadingLevel(parseInt(Tail(name))), textContent(el))>>
    ELSE IF name = <<"p">>
    THEN <<Paragraph("paragraph", 0, textContent(el))>>
    ELSE IF name = <<"p", "r", "e">>
    THEN <<Paragraph("monospace", 0, textContent(el))>>
    ELSE <<>>

RECURSIVE BodyParagraphs(_)
BodyParagraphs(elements) ==
    IF elements = <<>> THEN <<>>
    ELSE ElementParagraphs(elements[1]) \o BodyParagraphs(Tail(elements))

\* the empty paragraph pushed first
childrenBlankFirst(md, html) ==
    <<Paragraph("blank", 0, <<>>)>>
    \o (IF Truthy(md.title) THEN <<Paragraph("title", 0, md.title.v)>> ELSE <<>>)
    \o (IF Truthy(md.author)
        THEN <<Paragraph("author", 0, <<"Author: ">> \o md.author.v)>> ELSE <<>>)
    \o BodyParagraphs(querySelectorAllBlocks(html))

\* const children = []; ... elements.forEach(...)
children(md, html) ==
    (IF Truthy(md.title) THEN <<Paragraph("title", 0, md.title.v)>> ELSE <<>>)
    \o (IF Truthy(md.author)
        THEN <<Paragraph("author", 0, <<"Author: ">> \o md.author.v)>> ELSE <<>>)
    \o <<Paragraph("blank", 0, <<>>)>>
    \o BodyParagraphs(querySelectorAllBlocks(html))

-----------------------------------------------------------------------------
(* The application *)

MaxInvocations == 2

\* the size compared in whole MiB
TooLargeWholeMiB(file) == file.size \div (1024 * 1024) > 10

\* if (file.size > 10 * 1024 * 1024)
TooLarge(file) == file.size > 10 * 1024 * 1024

FrontMatterX == <<Dashes, <<"title: X">>, Dashes>>

Files ==
    { [name |-> <<"a", ".", "m", "d">>, size |-> 2048,
       text |-> TextOf(FrontMatterX \o
                   << <<"<pre><code class=language-mermaid>g1</code></pre>">>,
                      <<"a">>,
                      <<"<pre><code class=language-mermaid>g2</code></pre>">>,
                      <<"<pre><code class=language-mermaid>g3</code></pre>">> >>, TRUE)],
      [name |-> <<"b", ".", "M", "D">>, size |-> 10 * 1024 * 1024,
       text |-> TextOf(
                   << <<"b">>,
                      <<"<pre><code class=language-mermaid>g4</code><code class=language-mermaid>g5</code></pre>">> >>, TRUE)],
      [name |-> <<"d", ".", "t", "x", "t">>, size |-> 0,
       text |-> TextOf(<< <<"<code class=language-mermaid>g6</code>">>, <<"d">> >>, FALSE)],
      [name |-> <<"h", ".", "m", "d">>, size |-> 10 * 1024 * 1024 + 1,
       text |-> TextOf(<< <<"h">> >>, TRUE)],
      [name |-> <<"g", ".", "p", "d", "f">>, size |-> 4096,
       text |-> TextOf(<< <<"g">> >>, TRUE)] }

Event(ev, id, ok, replaced) == [ev |-> ev, id |-> id, ok |-> ok, replaced |-> replaced]
Called(fn) == Event(fn, -1, TRUE, {})

Invocation(file, pc) ==
    [file |-> file, pc |-> pc, tempDiv |-> <<>>, blocks |-> <<>>, i |-> 0, trace |-> <<>>]

\* a continuation of an async function is queued as a microtask: no event
\* and no file read is handled before it has run
MicrotaskPending == \E x \in 1..Len(invs) : invs[x].pc = "display"

\* showError(message)
showError(message) ==
    /\ display' = [display EXCEPT !.options = "none", !.preview = "none",
                                  !.progress = "none", !.error = "block"]
    /\ errorMessage' = message

Init ==
    /\ selectedFile = NullFile
    /\ AppIdle
    /\ TextIdle
    /\ PdfIdle

\* handleFileSelect / handleDrop: processFile(file) up to await readFileAsText.
\* The upload area takes the drop and opens the file picker, so a file is
\* chosen only while it is shown.
ProcessFile(file) ==
    /\ Len(invs) < MaxInvocations
    /\ ~MicrotaskPending
    /\ display.uploadArea = "block"
    /\ IF ~ValidType(file)
       THEN /\ showError("unsupported format")
            /\ invs' = Append(invs, Invocation(file, "rejected"))
            /\ UNCHANGED <<selectedFile, shownFile, previewContent>>
       ELSE IF TooLarge(file)
       THEN /\ showError("file too large")
            /\ invs' = Append(invs, Invocation(file, "rejected"))
            /\ UNCHANGED <<selectedFile, shownFile, previewContent>>
       ELSE /\ selectedFile' = file
            /\ invs' = Append(invs,
                  [Invocation(file, "read") EXCEPT !.trace = <<Called("readFileAsText")>>])
            /\ UNCHANGED domVars
    /\ UNCHANGED <<markdownContent, parsedHtml, metadata, convVars, textVars, pdfVars>>

\* displayFileInfo(file); displayPreview()
DisplayFileAndPreview(file, html) ==
    /\ shownFile' = file
    /\ previewContent' = html
    /\ display' = [display EXCEPT !.fileInfo = "block", !.uploadArea = "none",
                                  !.preview = "block", !.options = "block"]
    /\ UNCHANGED errorMessage

\* reader.onload: processFile from the assignment of markdownContent to the
\* first await of processMermaidDiagrams, or to its end when the fragment
\* holds no diagram block; md.render may throw, and whatever is thrown in
\* the try block ends in its catch block
ReadDone(x) ==
    /\ invs[x].pc = "read"
    /\ ~MicrotaskPending
    /\ LET file == invs[x].file
           text == file.text
           extracted == extractMetadata(text, selectedFile)
           html == md_render(removeFrontMatter(text))
           blocks == querySelectorAll(html)
           called == invs[x].trace \o
                     <<Called("extractMetadata"), Called("removeFrontMatter"), Called("md.render")>>
       IN  /\ markdownContent' = text
           /\ metadata' = IF extracted = Raised THEN metadata ELSE extracted
           /\ \/ /\ parsedHtml' = parsedHtml
                 /\ showError("read error")
                 /\ invs' = [invs EXCEPT ![x].pc = "failed",
                                         ![x].trace = IF extracted = Raised
                                                      THEN SubSeq(called, 1, Len(called) - 2)
                                                      ELSE called]
                 /\ UNCHANGED <<shownFile, previewContent>>
              \/ /\ extracted # Raised
                 /\ blocks = <<>>
                 /\ parsedHtml' = html
                 /\ DisplayFileAndPreview(file, html)
                 /\ invs' = [invs EXCEPT ![x].pc = "done", ![x].tempDiv = html,
                                         ![x].trace = called]
              \/ /\ extracted # Raised
                 /\ blocks # <<>>
                 /\ parsedHtml' = html
                 /\ invs' = [invs EXCEPT ![x].pc = "render", ![x].tempDiv = html,
                                         ![x].blocks = blocks, ![x].i = 0,
                                         ![x].trace = Append(called,
                                             Event("mermaid.render", 0, TRUE, {}))]
                 /\ UNCHANGED domVars
    /\ UNCHANGED <<selectedFile, convVars, textVars, pdfVars>>

\* reader.onerror: the promise is rejected and the catch block shows the error
ReadError(x) ==
    /\ invs[x].pc = "read"
    /\ ~MicrotaskPending
    /\ showError("read error")
    /\ invs' = [invs EXCEPT ![x].pc = "failed"]
    /\ UNCHANGED <<stateVars, shownFile, previewContent, convVars, textVars, pdfVars>>

\* mermaid.render(`mermaid-${i}`, mermaidCode) resolves (ok) or rejects: the
\* loop body after the await, then the next call or the end of
\* processMermaidDiagrams
RenderSettled(x, ok) ==
    /\ invs[x].pc = "render"
    /\ LET inv == invs[x]
           b == inv.blocks[inv.i + 1]
           div == IF ok THEN replaceWith(inv.tempDiv, b) ELSE inv.tempDiv
           gone == BlocksIn(inv.tempDiv, inv.blocks) \ BlocksIn(div, inv.blocks)
           settled == Append(inv.trace,
                         Event("settled", inv.i, ok, {j - 1 : j \in gone}))
       IN  IF inv.i + 1 < Len(inv.blocks)
           THEN /\ invs' = [invs EXCEPT ![x].tempDiv = div, ![x].i = inv.i + 1,
                                        ![x].trace = Append(settled,
                                            Event("mermaid.render", inv.i + 1, TRUE, {}))]
                /\ UNCHANGED parsedHtml
           ELSE /\ invs' = [invs EXCEPT ![x].tempDiv = div, ![x].i = inv.i + 1,
                                        ![x].pc = "display", ![x].trace = settled]
                /\ parsedHtml' = div
    /\ UNCHANGED <<selectedFile, markdownContent, metadata, domVars, convVars, textVars, pdfVars>>

\* processFile after await processMermaidDiagrams()
Display(x) ==
    /\ invs[x].pc = "display"
    /\ DisplayFileAndPreview(invs[x].file, parsedHtml)
    /\ invs' = [invs EXCEPT ![x].pc = "done"]
    /\ UNCHANGED <<stateVars, convVars, textVars, pdfVars>>

\* reset() without the section of the error hidden
resetKeepingError ==
    /\ selectedFile' = NullFile
    /\ markdownContent' = <<>>
    /\ parsedHtml' = <<>>
    /\ metadata' = EmptyMetadata
    /\ display' = [InitialDisplay EXCEPT !.error = display.error]
    /\ UNCHANGED <<shownFile, previewContent, errorMessage>>

\* reset()
reset ==
    /\ selectedFile' = NullFile
    /\ markdownContent' = <<>>
    /\ parsedHtml' = <<>>
    /\ metadata' = EmptyMetadata
    /\ display' = InitialDisplay
    /\ UNCHANGED <<shownFile, previewContent, errorMessage>>

\* reset(), from the retry button of the error section or the remove button
\* of the file information
Reset ==
    /\ ~MicrotaskPending
    /\ display.error = "block" \/ display.fileInfo = "block"
    /\ reset
    /\ UNCHANGED <<invs, convVars, textVars, pdfVars>>

Next ==
    \/ \E file \in Files : ProcessFile(file)
    \/ \E x \in 1..Len(invs) : ReadDone(x)
    \/ \E x \in 1..Len(invs) : ReadError(x)
    \/ \E x \in 1..Len(invs) : \E ok \in BOOLEAN : RenderSettled(x, ok)
    \/ \E x \in 1..Len(invs) : Display(x)
    \/ Reset

Spec == Init /\ [][Next]_vars


-----------------------------------------------------------------------------
(* Claims about the application, under Spec *)

Materialized(inv) == inv.pc \in {"display", "done"} /\ inv.blocks # <<>>

SettledEvents(inv) == SelectSeq(inv.trace, LAMBDA e : e.ev = "settled")

\* the blocks (from 1) whose render call was rejected
FailedBlocks(inv) ==
    { j \in 1..Len(inv.blocks) :
          \E h \in 1..Len(SettledEvents(inv)) :
              SettledEvents(inv)[h].id = j - 1 /\ ~SettledEvents(inv)[h].ok }

Containers(div) == { j \in 1..Len(div) : div[j].tag = "div.mermaid-diagram" }

\* C1 as stated: when processMermaidDiagrams has gone through a fragment of
\* N diagram code blocks and only the k-th render call was rejected, the
\* fragment holds N-1 mermaid-diagram containers and exactly one original code
\* block, the k-th, and no exception has left the function.
C1_OneFailureLeavesOneOriginal ==
    \A x \in 1..Len(invs) :
        Materialized(invs[x]) /\ Cardinality(FailedBlocks(invs[x])) = 1 =>
            /\ Cardinality(Containers(invs[x].tempDiv)) = Len(invs[x].blocks) - 1
            /\ BlocksIn(invs[x].tempDiv, invs[x].blocks) = FailedBlocks(invs[x])

\* C4 as stated: when a processFile invocation finishes, metadata is what
\* extractMetadata yields for that invocation's own file (title defaulted
\* from its own name) and parsedHtml is the rendered text of that file.
HtmlDerivesFrom(html, file) ==
    LET own == md_render(removeFrontMatter(file.text)) IN
    /\ Len(html) = Len(own)
    /\ \A j \in 1..Len(own) :
          \/ html[j] = own[j]
          \/ \E k \in 1..Len(own[j].codes) : html[j] = SvgDiv(own[j].codes[k])

C4_FinishedInvocationOwnsState ==
    [][\A x \in 1..Len(invs) :
          invs[x].pc # "done" /\ invs'[x].pc = "done" =>
              /\ metadata' = extractMetadata(invs[x].file.text, invs[x].file)
              /\ HtmlDerivesFrom(parsedHtml', invs[x].file)]_vars

\* C9: a file of more than 10 MiB is rejected when processFile is called: the
\* error section is shown, the invocation goes no further (no read, no
\* extractMetadata, removeFrontMatter or md.render call is made for it), and
\* selectedFile, markdownContent, parsedHtml and metadata keep their values.
Oversize(file) == file.size > 10 * 1024 * 1024

C9_OversizeRejectedBeforeProcessing ==
    /\ [][Len(invs') = Len(invs) + 1 /\ Oversize(invs'[Len(invs')].file) =>
             /\ invs'[Len(invs')].pc = "rejected"
             /\ display'.error = "block"
             /\ errorMessage' \in {"file too large", "unsupported format"}
             /\ UNCHANGED stateVars]_vars
    /\ [](\A x \in 1..Len(invs) :
             Oversize(invs[x].file) => invs[x].pc = "rejected" /\ invs[x].trace = <<>>)

C9_Witness ==
    \E x \in 1..Len(invs) :
        /\ Oversize(invs[x].file)
        /\ invs[x].pc = "rejected"
        /\ errorMessage = "file too large"
        /\ selectedFile # NullFile
        /\ metadata # EmptyMetadata

\* C10 as stated: in one invocation the render calls are made one after the
\* other in document order, call i+1 only after call i has settled, call i
\* with the identifier of index i, and the result of a call that resolved
\* replaces exactly the block at index i.
RenderEvents(inv) == SelectSeq(inv.trace, LAMBDA e : e.ev \in {"mermaid.render", "settled"})

C10_SequentialRendersReplaceOwnBlock ==
    \A x \in 1..Len(invs) :
        LET r == RenderEvents(invs[x]) IN
        \A j \in 1..Len(r) :
            IF j % 2 = 1
            THEN r[j].ev = "mermaid.render" /\ r[j].id = (j - 1) \div 2
            ELSE /\ r[j].ev = "settled" /\ r[j].id = (j - 2) \div 2
                 /\ r[j].replaced = IF r[j].ok THEN {r[j].id} ELSE {}


-----------------------------------------------------------------------------
(* convertAndDownload, generatePDF and generateDOCX *)

MaxConversions == 2

\* the characters /[a-z0-9]/i matches
Alphanumeric ==
    { "a", "b", "c", "d", "e", "f", "g", "h", "i", "j", "k", "l", "m", "n", "o", "p",
      "q", "r", "s", "t", "u", "v", "w", "x", "y", "z",
      "A", "B", "C", "D", "E", "F", "G", "H", "I", "J", "K", "L", "M", "N", "O", "P",
      "Q", "R", "S", "T", "U", "V", "W", "X", "Y", "Z",
      "0", "1", "2", "3", "4", "5", "6", "7", "8", "9" }

\* the characters an element of a text stands for: the placeholder title is a
\* word of eight letters, none of them in a-z
CharsOf(c) == IF c = Placeholder[1] THEN [j \in 1..8 |-> "Document"] ELSE <<c>>

\* the characters outside a-z, 0-9 removed
RECURSIVE RemoveNonAlphanumeric(_)
RemoveNonAlphanumeric(s) ==
    IF s = <<>> THEN <<>>
    ELSE (IF s[1] \in Alphanumeric THEN <<s[1]>> ELSE <<>>)
         \o RemoveNonAlphanumeric(Tail(s))

\* title.replace(/[^a-z0-9]/gi, '_')
RECURSIVE ReplaceNonAlphanumeric(_)
ReplaceNonAlphanumeric(s) ==
    IF s = <<>> THEN <<>>
    ELSE [j \in 1..Len(CharsOf(s[1])) |->
              IF CharsOf(s[1])[j] \in Alphanumeric THEN CharsOf(s[1])[j] ELSE "_"]
         \o ReplaceNonAlphanumeric(Tail(s))

ExtPdf == <<".", "p", "d", "f">>
ExtDocx == <<".", "d", "o", "c", "x">>

\* the file name with the characters outside a-z, 0-9 removed
filenameRemoving(title, ext) ==
    IF title.t = "string" THEN toLowerCase(RemoveNonAlphanumeric(title.v)) \o ext
    ELSE Thrown

\* metadata.title.replace(/[^a-z0-9]/gi, '_').toLowerCase() + ext: a value
\* that is not a string has no replace method
filename(title, ext) ==
    IF title.t = "string" THEN toLowerCase(ReplaceNonAlphanumeric(title.v)) \o ext
    ELSE Thrown

Formats == {"pdf", "docx"}

Conversion(format, pc) ==
    [format |-> format, pc |-> pc, container |-> "none", children |-> <<>>,
     failure |-> "none", saveCalled |-> FALSE, saved |-> <<>>]

\* the convert button: convertAndDownload up to the await of generatePDF
\* (container built and appended, html2canvas called) or of generateDOCX
\* (paragraphs and document built, Packer.toBlob called)
ConvertClick(format) ==
    /\ Len(convs) < MaxConversions
    /\ ~MicrotaskPending
    /\ display.options = "block"
    /\ IF selectedFile = NullFile
       THEN /\ showError("file not selected")
            /\ convs' = Append(convs, Conversion(format, "nofile"))
            /\ UNCHANGED <<shownFile, previewContent>>
       ELSE /\ display' = [display EXCEPT !.options = "none", !.preview = "none",
                                          !.fileInfo = "none", !.progress = "block"]
            /\ convs' = Append(convs,
                  IF format = "pdf"
                  THEN [Conversion(format, "html2canvas") EXCEPT !.container = "attached"]
                  ELSE [Conversion(format, "toBlob") EXCEPT
                            !.children = children(metadata, parsedHtml)])
            /\ UNCHANGED <<shownFile, previewContent, errorMessage>>
    /\ UNCHANGED <<stateVars, invs, timers, textVars, pdfVars>>

\* setTimeout(reset, 2000) after the try statement instead of inside it
FinishSchedulingAlways(c, failure, name, saveCalled) ==
    IF failure = "none"
    THEN /\ convs' = [convs EXCEPT ![c].pc = "succeeded", ![c].saved = <<name>>,
                                   ![c].saveCalled = TRUE,
                                   ![c].container =
                                       IF @ = "attached" THEN "detached" ELSE @]
         /\ timers' = timers + 1
         /\ UNCHANGED domVars
    ELSE /\ convs' = [convs EXCEPT ![c].pc = "failed", ![c].failure = failure,
                                   ![c].saveCalled = saveCalled,
                                   ![c].container =
                                       IF @ = "attached" THEN "detached" ELSE @]
         /\ showError("generation error")
         /\ timers' = timers + 1
         /\ UNCHANGED <<shownFile, previewContent>>

\* removeChild as the last statement of the try block, with no finally
FinishWithoutFinally(c, failure, name, saveCalled) ==
    IF failure = "none"
    THEN /\ convs' = [convs EXCEPT ![c].pc = "succeeded", ![c].saved = <<name>>,
                                   ![c].saveCalled = TRUE,
                                   ![c].container =
                                       IF @ = "attached" THEN "detached" ELSE @]
         /\ timers' = timers + 1
         /\ UNCHANGED domVars
    ELSE /\ convs' = [convs EXCEPT ![c].pc = "failed", ![c].failure = failure,
                                   ![c].saveCalled = saveCalled]
         /\ showError("generation error")
         /\ UNCHANGED <<timers, shownFile, previewContent>>

\* the end of convertAndDownload: setTimeout(reset, 2000) after the renderer
\* returned, showError in the catch block after it threw
Finish(c, failure, name, saveCalled) ==
    IF failure = "none"
    THEN /\ convs' = [convs EXCEPT ![c].pc = "succeeded", ![c].saved = <<name>>,
                                   ![c].saveCalled = TRUE,
                                   ![c].container =
                                       IF @ = "attached" THEN "detached" ELSE @]
         /\ timers' = timers + 1
         /\ UNCHANGED domVars
    ELSE /\ convs' = [convs EXCEPT ![c].pc = "failed", ![c].failure = failure,
                                   ![c].saveCalled = saveCalled,
                                   ![c].container =
                                       IF @ = "attached" THEN "detached" ELSE @]
         /\ showError("generation error")
         /\ UNCHANGED <<timers, shownFile, previewContent>>

PdfOutcomes == {"ok", "html2canvas", "addImage", "save"}

\* html2canvas settles: generatePDF from the await to its end (the pages, the
\* file name, pdf.save, and removeChild in the finally block), then the end
\* of convertAndDownload.  outcome names the library call that throws.
Html2canvasSettled(c, outcome) ==
    /\ convs[c].pc = "html2canvas"
    /\ ~MicrotaskPending
    /\ LET name == filename(metadata.title, ExtPdf)
           failure == IF outcome \in {"html2canvas", "addImage"} THEN outcome
                      ELSE IF name = Thrown THEN "filename"
                      ELSE IF outcome = "save" THEN outcome ELSE "none"
       IN  Finish(c, failure, name, failure = "save")
    /\ UNCHANGED <<stateVars, invs, textVars, pdfVars>>

DocxOutcomes == {"ok", "toBlob", "saveAs"}

\* Packer.toBlob settles: generateDOCX from the await to its end (the file
\* name and saveAs), then the end of convertAndDownload
ToBlobSettled(c, outcome) ==
    /\ convs[c].pc = "toBlob"
    /\ ~MicrotaskPending
    /\ LET name == filename(metadata.title, ExtDocx)
           failure == IF outcome = "toBlob" THEN outcome
                      ELSE IF name = Thrown THEN "filename"
                      ELSE IF outcome = "saveAs" THEN outcome ELSE "none"
       IN  Finish(c, failure, name, failure = "saveAs")
    /\ UNCHANGED <<stateVars, invs, textVars, pdfVars>>

\* the timer of setTimeout(reset, 2000) fires
TimerFires ==
    /\ timers > 0
    /\ ~MicrotaskPending
    /\ reset
    /\ timers' = timers - 1
    /\ UNCHANGED <<invs, convs, textVars, pdfVars>>

ConvertFiles ==
    { [name |-> <<"r", ".", "m", "d">>, size |-> 1024,
       text |-> TextOf(<<Dashes, <<"title: X">>, <<"author: A">>, Dashes,
                         <<"# T">>, <<"a">>, <<"~~~c~~~">>, <<"***">>, <<"- i">>,
                         <<"1. j (loose)">>, <<"> ### Q">>, <<"###### S">>,
                         <<"<pre><code class=language-mermaid>g1</code></pre>">> >>, TRUE)],
      [name |-> <<"f", ".", "t", "x", "t", ".", "m", "d">>, size |-> 512,
       text |-> TextOf(<<Dashes, <<"[">>, Dashes, <<"# T">>, <<"a">>, <<"~~~c~~~">> >>, TRUE)],
      [name |-> <<"g", ".", "p", "d", "f">>, size |-> 4096,
       text |-> TextOf(<< <<"g">> >>, TRUE)] }

\* each of the files is chosen once
NotChosenYet(file) == \A x \in 1..Len(invs) : invs[x].file # file

NextConvert ==
    \/ \E file \in ConvertFiles : NotChosenYet(file) /\ ProcessFile(file)
    \/ \E x \in 1..Len(invs) : ReadDone(x)
    \/ \E x \in 1..Len(invs) : ReadError(x)
    \/ \E x \in 1..Len(invs) : \E ok \in BOOLEAN : RenderSettled(x, ok)
    \/ \E x \in 1..Len(invs) : Display(x)
    \/ Reset
    \/ \E format \in Formats : ConvertClick(format)
    \/ \E c \in 1..Len(convs) : \E outcome \in PdfOutcomes : Html2canvasSettled(c, outcome)
    \/ \E c \in 1..Len(convs) : \E outcome \in DocxOutcomes : ToBlobSettled(c, outcome)
    \/ TimerFires

SpecConvert == Init /\ [][NextConvert]_vars

\* a timer set is a timer that fires, and the continuation of an async
\* function that is queued runs
SpecConvertFair ==
    /\ SpecConvert
    /\ WF_vars(TimerFires)
    /\ WF_vars(\E x \in 1..Len(invs) : Display(x))


-----------------------------------------------------------------------------
(* Claims about the conversion, under SpecConvert and SpecConvertFair *)

Fails(c) == convs[c].pc # "failed" /\ convs'[c].pc = "failed"

Succeeds(c) == convs[c].pc # "succeeded" /\ convs'[c].pc = "succeeded"

\* C11: a conversion that fails, in particular because html2canvas rejects
\* (PDF) or Packer.toBlob rejects (DOCX), shows the error section with the
\* progress, preview and options sections hidden and schedules no reset;
\* when the rasterization or the packaging is what failed, neither pdf.save
\* nor saveAs was called and nothing was saved.
C11_FatalErrorYieldsNoArtifact ==
    /\ [][\A c \in 1..Len(convs) : Fails(c) =>
              /\ display'.error = "block"
              /\ display'.progress = "none"
              /\ display'.options = "none" /\ display'.preview = "none"
              /\ errorMessage' = "generation error"
              /\ timers' = timers]_vars
    /\ [](\A c \in 1..Len(convs) :
              /\ convs[c].pc = "failed" => convs[c].saved = <<>>
              /\ convs[c].pc = "failed" /\ convs[c].failure \in {"html2canvas", "toBlob"}
                    => ~convs[c].saveCalled)

C11_Witness ==
    /\ \E c \in 1..Len(convs) : convs[c].pc = "failed" /\ convs[c].failure = "html2canvas"
    /\ \E c \in 1..Len(convs) : convs[c].pc = "failed" /\ convs[c].failure = "toBlob"
    /\ timers = 0
    /\ display.error = "block"

\* C12: the container generatePDF appends to the document is attached only
\* while html2canvas is pending; once generatePDF has returned or thrown,
\* whatever threw (html2canvas, addImage, the file name, pdf.save), it is
\* detached, so a conversion that starts finds no container of a conversion
\* that ended.
C12_ContainerDetachedOnEveryExit ==
    \A c \in 1..Len(convs) :
        /\ convs[c].container = "attached" <=> convs[c].pc = "html2canvas"
        /\ convs[c].format = "pdf" /\ convs[c].pc \in {"succeeded", "failed"}
              => convs[c].container = "detached"

C12_Witness ==
    /\ Len(convs) = 2
    /\ convs[1].format = "pdf" /\ convs[1].failure = "addImage"
    /\ convs[1].container = "detached"
    /\ convs[2].format = "pdf" /\ convs[2].container = "attached"

ExtOf(c) == IF convs[c].format = "pdf" THEN ExtPdf ELSE ExtDocx

RECURSIVE Characters(_)
Characters(s) == IF s = <<>> THEN <<>> ELSE CharsOf(s[1]) \o Characters(Tail(s))

\* C14 as stated: the name of the file saved is the title without its
\* characters outside a-z, A-Z, 0-9, in lower case, followed by the extension.
C14_FilenameIsTitleWithoutNonAlphanumerics ==
    [][\A c \in 1..Len(convs) : Succeeds(c) =>
          convs'[c].saved =
              <<toLowerCase(RemoveNonAlphanumeric(metadata.title.v)) \o ExtOf(c)>>]_vars

\* C14 amended: the name of the file saved by either renderer is the title
\* with every character outside a-z, A-Z, 0-9 replaced by one underscore (not
\* removed: the name is as long as the title plus the extension) and every
\* letter in lower case, followed by .pdf or .docx; a conversion that ends
\* while metadata.title is not a string fails and saves no file.
C14_FilenameReplacesNonAlphanumerics ==
    /\ [][\A c \in 1..Len(convs) : Succeeds(c) =>
              LET t == Characters(metadata.title.v)
                  name == convs'[c].saved[1]
              IN  /\ metadata.title.t = "string"
                  /\ Len(name) = Len(t) + Len(ExtOf(c))
                  /\ SubSeq(name, Len(t) + 1, Len(name)) = ExtOf(c)
                  /\ \A j \in 1..Len(t) :
                        name[j] = IF t[j] \in Alphanumeric THEN LowerChar(t[j]) ELSE "_"]_vars
    /\ [][\A c \in 1..Len(convs) :
              convs[c].pc \in {"html2canvas", "toBlob"} /\ convs'[c].pc # convs[c].pc
              /\ metadata.title.t # "string"
                  => convs'[c].pc = "failed" /\ convs'[c].saved = <<>>]_vars

C14_Witness ==
    /\ \E c \in 1..Len(convs) :
          convs[c].format = "pdf" /\ convs[c].saved = << <<"f", "_", "t", "x", "t">> \o ExtPdf >>
    /\ \E c \in 1..Len(convs) :
          convs[c].format = "docx" /\ convs[c].saved = << <<"x">> \o ExtDocx >>

StartsDocx == Len(convs') = Len(convs) + 1 /\ convs'[Len(convs')].pc = "toBlob"

Count(ps, kind) == Len(SelectSeq(ps, LAMBDA b : b.kind = kind))

KindOf(tag) ==
    CASE tag \in {"h1", "h2", "h3", "h4", "h5", "h6"} -> "heading"
      [] tag = "p" -> "paragraph"
      [] tag = "pre" -> "monospace"
      [] OTHER -> "none"

\* C15: the paragraphs generateDOCX builds are a title paragraph when the
\* title is not empty, then an author line when the author is not empty,
\* then one empty paragraph, then one paragraph for each heading, paragraph
\* and preformatted element of the fragment in document order with the text
\* of the element, the lists giving none; a fragment of one level-1
\* heading, one paragraph and one code block gives heading, paragraph,
\* monospace.
C15_BlocksInDocumentOrder ==
    [][StartsDocx =>
          LET ps == convs'[Len(convs')].children
              head == (IF Truthy(metadata.title) THEN 1 ELSE 0)
                      + (IF Truthy(metadata.author) THEN 1 ELSE 0)
              body == SubSeq(ps, head + 2, Len(ps))
              els == SelectSeq(Descendants(parsedHtml), LAMBDA el : KindOf(el.tag) # "none")
          IN  /\ Len(ps) >= head + 1
              /\ ps[head + 1].kind = "blank" /\ Count(ps, "blank") = 1
              /\ Truthy(metadata.title) <=> ps[1].kind = "title"
              /\ Count(ps, "title") <= 1 /\ Count(ps, "author") <= 1
              /\ Truthy(metadata.author) <=> ps[head].kind = "author"
              /\ Len(body) = Len(els)
              /\ \A j \in 1..Len(els) :
                     body[j].kind = KindOf(els[j].tag) /\ body[j].text = textContent(els[j])
              /\ [j \in 1..Len(parsedHtml) |-> parsedHtml[j].tag] = <<"h1", "p", "pre">>
                     => [j \in 1..Len(body) |-> <<body[j].kind, body[j].level>>]
                           = << <<"heading", 1>>, <<"paragraph", 0>>, <<"monospace", 0>> >>]_vars

C15_Witness ==
    \E c \in 1..Len(convs) :
        /\ convs[c].pc = "toBlob"
        /\ [j \in 1..Len(parsedHtml) |-> parsedHtml[j].tag] = <<"h1", "p", "pre">>
        /\ [j \in 1..Len(convs[c].children) |-> convs[c].children[j].kind]
              = <<"title", "blank", "heading", "paragraph", "monospace">>

LevelOf(tag) ==
    CASE tag = "h1" -> 1 [] tag = "h2" -> 2 [] tag = "h3" -> 3
      [] tag = "h4" -> 4 [] tag = "h5" -> 5 [] tag = "h6" -> 6 [] OTHER -> 0

\* C17: the heading paragraphs generateDOCX builds are, in document order,
\* those of the elements h1 to h6 of the fragment, each with the level of its
\* element and its text; no other element gives a heading paragraph, and the
\* level of a heading paragraph is always one of 1 to 6.
C17_HeadingsKeepTheirLevel ==
    [][StartsDocx =>
          LET ps == SelectSeq(convs'[Len(convs')].children, LAMBDA b : b.kind = "heading")
              hs == SelectSeq(Descendants(parsedHtml), LAMBDA el : LevelOf(el.tag) # 0)
          IN  /\ Len(ps) = Len(hs)
              /\ \A j \in 1..Len(hs) :
                     ps[j].level = LevelOf(hs[j].tag) /\ ps[j].text = textContent(hs[j])
              /\ \A j \in 1..Len(ps) : ps[j].level \in 1..6]_vars

C17_Witness ==
    \E c \in 1..Len(convs) :
        LET ps == SelectSeq(convs[c].children, LAMBDA b : b.kind = "heading") IN
        /\ [j \in 1..Len(ps) |-> ps[j].level] = <<1, 3, 6>>
        /\ \E j \in 1..Len(parsedHtml) : parsedHtml[j].tag = "hr"
        /\ convs[c].pc = "toBlob"

\* C18 as stated: whenever the options section is shown a file is selected,
\* and no conversion ends in the error of no file being selected.
C18_OptionsShownImpliesFileSelected ==
    /\ display.options = "block" => selectedFile # NullFile
    /\ \A c \in 1..Len(convs) : convs[c].pc # "nofile"

\* C19 as stated: the error section is never shown together with the preview
\* or the options section, and no conversion starts while it is shown.
C19_ErrorExcludesPreviewAndOptions ==
    display.error = "block" =>
        /\ display.options = "none" /\ display.preview = "none"
        /\ \A c \in 1..Len(convs) : convs[c].pc \notin {"html2canvas", "toBlob"}

InitialState ==
    /\ selectedFile = NullFile
    /\ markdownContent = <<>>
    /\ parsedHtml = <<>>
    /\ metadata = EmptyMetadata
    /\ display = InitialDisplay

\* C20: a conversion that succeeds schedules reset, and once the timer fires
\* the application is in the initial state: no file selected, no text, no
\* fragment, empty metadata, the upload area the only section shown; every
\* call of reset, from the timer or a button, ends in that state whatever
\* the state it starts in.
C20_SuccessLeadsToInitialState ==
    /\ [][\A c \in 1..Len(convs) : Succeeds(c) => timers' = timers + 1]_vars
    /\ [][Reset \/ TimerFires => InitialState']_vars
    /\ (timers > 0) ~> (InitialState /\ timers = 0)

C20_Witness ==
    /\ \E c \in 1..Len(convs) : convs[c].pc = "succeeded"
    /\ timers = 0
    /\ InitialState
    /\ shownFile # NullFile

=============================================================================
